---------------------------- MODULE Spec2Model ----------------------------
(***************************************************************************)
(* Model of src/src/index.js: the BuiltWith API client.                    *)
(*                                                                         *)
(* A client is built by BuiltWith(apiKey, moduleParams).  Each of its      *)
(* seven methods builds a URL (constructBuiltWithURL, paramsObjToQuery-    *)
(* String), issues one fetch, and after the response arrives decodes the   *)
(* body according to the client's responseFormat.                          *)
(*                                                                         *)
(* JavaScript values are tagged records [t |-> tag, v |-> payload].        *)
(* Strings that end up in a URL are TLA+ strings (tag "string").  Response *)
(* bodies have to be scanned character by character by JSON.parse, so a    *)
(* body is a sequence of one-character strings (tag "text").               *)
(***************************************************************************)
EXTENDS Integers, Sequences, FiniteSets, TLC

VARIABLES
  ctor,          \* "none" | "returned" | "threw": outcome of module.exports(apiKey, moduleParams)
  ctorArgs,      \* the arguments the constructor was called with
  client,        \* closure of BuiltWith: [apiKey, responseFormat], or NoClient
  calls,         \* per method call: its position, its locals (bwURL, body) and its outcome
  requests,      \* per method call: the URLs it handed to fetch, in order
  console,       \* per origin (0: the constructor, c: call c): the console.warn messages, in order
  requestParams, \* input of the URL builder when it is exercised on its own
  queryString,   \* paramsObjToQueryString(requestParams), once computed
  builtURL       \* constructBuiltWithURL(apiName, requestParams), once computed

vars == <<ctor, ctorArgs, client, calls, requests, console, requestParams, queryString, builtURL>>

---------------------------------------------------------------------------
(* Bounds of the model *)

MaxCalls == 2      \* method calls that may be in flight together
MaxParams == 3     \* entries of a parameter mapping given to the URL builder

Calls == 1..MaxCalls

---------------------------------------------------------------------------
(* JavaScript values *)

Undefined == [t |-> "undefined"]
Null == [t |-> "null"]
Bool(b) == [t |-> "boolean", v |-> b]
Num(n) == [t |-> "number", v |-> n]
Str(s) == [t |-> "string", v |-> s]
Arr(a) == [t |-> "array", v |-> a]      \* array of strings (a technology list)
Text(cs) == [t |-> "text", v |-> cs]    \* string held as a sequence of characters
JArray(vs) == [t |-> "jarray", v |-> vs]     \* parsed JSON array
JObject(ms) == [t |-> "jobject", v |-> ms]   \* parsed JSON object: <<key, value>> entries in insertion order

Digit == <<"0", "1", "2", "3", "4", "5", "6", "7", "8", "9">>

RECURSIVE NatToString(_)
NatToString(n) ==
  IF n < 10 THEN Digit[n + 1] ELSE NatToString(n \div 10) \o Digit[(n % 10) + 1]

RECURSIVE Join(_, _)
Join(strs, sep) ==
  IF Len(strs) = 0 THEN ""
  ELSE IF Len(strs) = 1 THEN strs[1]
  ELSE strs[1] \o sep \o Join(Tail(strs), sep)

\* The string a template literal `${value}` interpolates.
TemplateString(value) ==
  CASE value.t = "undefined" -> "undefined"
    [] value.t = "null" -> "null"
    [] value.t = "boolean" -> (IF value.v THEN "true" ELSE "false")
    [] value.t = "number" -> (IF value.v < 0 THEN "-" \o NatToString(0 - value.v) ELSE NatToString(value.v))
    [] value.t = "string" -> value.v
    [] value.t = "array" -> Join(value.v, ",")

\* _.get(object, path, defaultValue) for a one-key path: the default stands in
\* for a missing object, a missing key and a key whose value is undefined.
Get(object, path, defaultValue) ==
  IF object = Undefined \/ object = Null THEN defaultValue
  ELSE IF path \notin DOMAIN object THEN defaultValue
  ELSE IF object[path] = Undefined THEN defaultValue
  ELSE object[path]

---------------------------------------------------------------------------
(* JSON.parse on a body, a sequence of characters.  The grammar of ECMA-404  *)
(* without string escapes, fractions and exponents: no body of the model     *)
(* uses them.  A parse yields [ok |-> TRUE, val, next] or ParseFail.         *)

Whitespace == {" ", "\t", "\n", "\r"}
DigitChars == {Digit[i] : i \in 1..10}
DigitValue(ch) == CHOOSE d \in 0..9 : Digit[d + 1] = ch

ParseFail == [ok |-> FALSE]
ParseOk(value, next) == [ok |-> TRUE, val |-> value, next |-> next]

\* The character at position i; "" past the end.
At(s, i) == IF i >= 1 /\ i <= Len(s) THEN s[i] ELSE ""

RECURSIVE SkipWs(_, _)
SkipWs(s, i) == IF At(s, i) \in Whitespace THEN SkipWs(s, i + 1) ELSE i

Matches(s, i, word) ==
  i + Len(word) - 1 <= Len(s) /\ SubSeq(s, i, i + Len(word) - 1) = word

\* Position of the quote closing a string whose first character is at i; 0 if none.
RECURSIVE StringEnd(_, _)
StringEnd(s, i) ==
  IF i > Len(s) \/ At(s, i) \in {"\\", "\n", "\r", "\t"} THEN 0
  ELSE IF s[i] = "\"" THEN i
  ELSE StringEnd(s, i + 1)

RECURSIVE DigitsEnd(_, _)
DigitsEnd(s, i) == IF At(s, i) \in DigitChars THEN DigitsEnd(s, i + 1) ELSE i

RECURSIVE DigitsValue(_)
DigitsValue(ds) ==
  IF Len(ds) = 0 THEN 0
  ELSE 10 * DigitsValue(SubSeq(ds, 1, Len(ds) - 1)) + DigitValue(ds[Len(ds)])

ParseString(s, i) ==
  LET end == StringEnd(s, i + 1)
  IN IF end = 0 THEN ParseFail ELSE ParseOk(Text(SubSeq(s, i + 1, end - 1)), end + 1)

ParseNumber(s, i) ==
  LET neg == At(s, i) = "-"
      first == IF neg THEN i + 1 ELSE i
      end == DigitsEnd(s, first)
  IN IF end = first THEN ParseFail
     ELSE IF At(s, first) = "0" /\ end > first + 1 THEN ParseOk(Num(0), first + 1)
     ELSE IF At(s, end) \in {".", "e", "E"} THEN ParseFail
     ELSE LET n == DigitsValue(SubSeq(s, first, end - 1))
          IN ParseOk(Num(IF neg THEN 0 - n ELSE n), end)

\* Object property assignment: a repeated key keeps its place and takes the new value.
PutMember(members, key, value) ==
  IF \E i \in 1..Len(members) : members[i][1] = key
  THEN [i \in 1..Len(members) |->
          IF members[i][1] = key THEN <<key, value>> ELSE members[i]]
  ELSE Append(members, <<key, value>>)

RECURSIVE ParseValue(_, _)
RECURSIVE ParseElements(_, _, _)
RECURSIVE ParseMembers(_, _, _)

ParseValue(s, i) ==
  LET ch == At(s, i)
  IN CASE ch = "t" -> (IF Matches(s, i, <<"t", "r", "u", "e">>)
                       THEN ParseOk(Bool(TRUE), i + 4) ELSE ParseFail)
       [] ch = "f" -> (IF Matches(s, i, <<"f", "a", "l", "s", "e">>)
                       THEN ParseOk(Bool(FALSE), i + 5) ELSE ParseFail)
       [] ch = "n" -> (IF Matches(s, i, <<"n", "u", "l", "l">>)
                       THEN ParseOk(Null, i + 4) ELSE ParseFail)
       [] ch = "\"" -> ParseString(s, i)
       [] ch = "-" \/ ch \in DigitChars -> ParseNumber(s, i)
       [] ch = "[" -> (LET j == SkipWs(s, i + 1)
                       IN IF At(s, j) = "]" THEN ParseOk(JArray(<<>>), j + 1)
                          ELSE ParseElements(s, j, <<>>))
       [] ch = "{" -> (LET j == SkipWs(s, i + 1)
                       IN IF At(s, j) = "}" THEN ParseOk(JObject(<<>>), j + 1)
                          ELSE ParseMembers(s, j, <<>>))
       [] OTHER -> ParseFail

ParseElements(s, i, acc) ==
  LET r == ParseValue(s, i)
  IN IF ~r.ok THEN ParseFail
     ELSE LET k == SkipWs(s, r.next)
          IN CASE At(s, k) = "," -> ParseElements(s, SkipWs(s, k + 1), Append(acc, r.val))
               [] At(s, k) = "]" -> ParseOk(JArray(Append(acc, r.val)), k + 1)
               [] OTHER -> ParseFail

ParseMembers(s, i, acc) ==
  LET key == IF At(s, i) = "\"" THEN ParseString(s, i) ELSE ParseFail
  IN IF ~key.ok THEN ParseFail
     ELSE LET c == SkipWs(s, key.next)
              r == IF At(s, c) = ":" THEN ParseValue(s, SkipWs(s, c + 1)) ELSE ParseFail
          IN IF ~r.ok THEN ParseFail
             ELSE LET k == SkipWs(s, r.next)
                      members == PutMember(acc, key.val.v, r.val)
                  IN CASE At(s, k) = "," -> ParseMembers(s, SkipWs(s, k + 1), members)
                       [] At(s, k) = "}" -> ParseOk(JObject(members), k + 1)
                       [] OTHER -> ParseFail

\* JSON.parse(text): the value, or ParseFail where JSON.parse throws a SyntaxError.
JSONParse(text) ==
  LET r == ParseValue(text, SkipWs(text, 1))
  IN IF r.ok /\ SkipWs(text, r.next) > Len(text) THEN r ELSE ParseFail

---------------------------------------------------------------------------
(* index.js, lines 4-25 *)

VALID_RESPONSE_TYPES == [XML |-> "xml", JSON |-> "json", TXT |-> "txt"]

ValidFormats == {VALID_RESPONSE_TYPES[k] : k \in DOMAIN VALID_RESPONSE_TYPES}

\* A filter on truthiness instead of on undefined.
DefinedEntries_Truthy(params) ==
  SelectSeq(params, LAMBDA e : e[2] \notin {Undefined, Null, Bool(FALSE), Num(0), Str("")})

\* Object.entries(params).filter(value !== undefined)
DefinedEntries(params) == SelectSeq(params, LAMBDA e : e[2] # Undefined)

\* .map(([key, value]) => `${key}=${value}`)
Pairs(entries) == [i \in 1..Len(entries) |-> entries[i][1] \o "=" \o TemplateString(entries[i][2])]

paramsObjToQueryString(params) == Join(Pairs(DefinedEntries(params)), "&")

---------------------------------------------------------------------------
(* index.js, lines 28-51: the closure of BuiltWith *)

NoClient == [t |-> "none"]

\* _.isEmpty(requestParams) for a plain object: it has no own keys.
IsEmpty(params) == Len(params) = 0

constructBuiltWithURL(apiName, params, subdomain) ==
  LET bwURL == "https://" \o subdomain \o ".builtwith.com/" \o apiName \o "/api."
               \o client.responseFormat \o "?KEY=" \o client.apiKey
  IN IF ~IsEmpty(params) THEN bwURL \o "&" \o paramsObjToQueryString(params) ELSE bwURL

TXT_WARNING == "TXT response format is only supported for the BuiltWith Lists API."
FALLBACK_WARNING == "BuiltWith sent an invalid JSON payload. Falling back to text parsing."

\* A check that accepts any string as a format.
FormatAccepted_AnyString(responseFormat) == responseFormat.t = "string"

\* Whether construction passes the check of line 31.
FormatAccepted(responseFormat) ==
  responseFormat.t = "string" /\ responseFormat.v \in ValidFormats

IdleCall == [pc |-> "idle", method |-> "none", args |-> <<>>, bwURL |-> "", body |-> <<>>,
             jsonParsed |-> FALSE, outcome |-> Undefined]

\* module.exports(apiKey, moduleParams): BuiltWith with moduleParams = {} when undefined.
BuiltWith(apiKey, moduleParams) ==
  LET responseFormat == Get(moduleParams, "responseFormat", Undefined)
  IN /\ ctor = "none"
     /\ ctorArgs' = <<apiKey, moduleParams>>
     /\ IF ~FormatAccepted(responseFormat)
        THEN /\ ctor' = "threw"
             /\ UNCHANGED <<client, console>>
        ELSE /\ ctor' = "returned"
             /\ client' = [apiKey |-> apiKey, responseFormat |-> responseFormat.v]
             /\ console' = IF responseFormat.v = VALID_RESPONSE_TYPES.TXT
                           THEN [console EXCEPT ![0] = Append(@, TXT_WARNING)]
                           ELSE console
     /\ UNCHANGED <<calls, requests, requestParams, queryString, builtURL>>

---------------------------------------------------------------------------
(* index.js, lines 54-260: the methods of the returned object.              *)
(* An async method runs to its fetch, is suspended, and runs its            *)
(* continuation when the response (or a transport failure) arrives.  A call *)
(* record holds pc ("idle", "fetching", "resolved", "rejected"), the        *)
(* method and its arguments, the locals bwURL and body, whether JSON        *)
(* parsing was run on the body, and the value or error the promise settled  *)
(* with.                                                                    *)

\* A fetch that sends its request a second time.
Fetch_Twice(c, method, args, bwURL) ==
  /\ ctor = "returned"
  /\ calls[c].pc = "idle"
  /\ calls' = [calls EXCEPT ![c] = [IdleCall EXCEPT !.pc = "fetching", !.method = method,
                                                    !.args = args, !.bwURL = bwURL]]
  /\ requests' = [requests EXCEPT ![c] = Append(Append(@, bwURL), bwURL)]
  /\ UNCHANGED <<ctor, ctorArgs, client, console, requestParams, queryString, builtURL>>

\* fetch(bwURL, {}): the request goes out and the async method is suspended.
Fetch(c, method, args, bwURL) ==
  /\ ctor = "returned"
  /\ calls[c].pc = "idle"
  /\ calls' = [calls EXCEPT ![c] = [IdleCall EXCEPT !.pc = "fetching", !.method = method,
                                                    !.args = args, !.bwURL = bwURL]]
  /\ requests' = [requests EXCEPT ![c] = Append(@, bwURL)]
  /\ UNCHANGED <<ctor, ctorArgs, client, console, requestParams, queryString, builtURL>>

\* fetch rejects (DNS, connection refused): the await throws, the method's promise rejects.
FetchRejects(c) ==
  /\ calls[c].pc = "fetching"
  /\ calls' = [calls EXCEPT ![c].pc = "rejected", ![c].outcome = Str("TransportError")]
  /\ UNCHANGED <<ctor, ctorArgs, client, requests, console, requestParams, queryString, builtURL>>

\* What the code after the fetch does with a body: how the promise settles, whether
\* JSON parsing ran, and what it wrote with console.warn.
Settled(pc, outcome, jsonParsed, warnings) ==
  [pc |-> pc, outcome |-> outcome, jsonParsed |-> jsonParsed, warnings |-> warnings]

\* res.text()
ResText(body) == Settled("resolved", Text(body), FALSE, <<>>)

\* res.json(): JSON.parse of the body text; the promise rejects when it throws.
ResJson(body) ==
  LET r == JSONParse(body)
  IN IF r.ok THEN Settled("resolved", r.val, TRUE, <<>>)
     ELSE Settled("rejected", Str("ParseError"), TRUE, <<>>)

\* A parse whose failure is not caught.
TextThenParse_Uncaught(body) == ResJson(body)

\* let parsed = await res.text(); try { return JSON.parse(parsed) } catch { warn; return parsed }
TextThenParse(body) ==
  LET r == JSONParse(body)
  IN IF r.ok THEN Settled("resolved", r.val, TRUE, <<>>)
     ELSE Settled("resolved", Text(body), TRUE, <<FALLBACK_WARNING>>)

\* The continuation of method `method` in call c on a response with body `body`.
Continue(c, method, body, settled) ==
  /\ calls[c].pc = "fetching"
  /\ calls[c].method = method
  /\ calls' = [calls EXCEPT ![c].pc = settled.pc, ![c].body = body,
                            ![c].jsonParsed = settled.jsonParsed,
                            ![c].outcome = settled.outcome]
  /\ console' = [console EXCEPT ![c] = @ \o settled.warnings]
  /\ UNCHANGED <<ctor, ctorArgs, client, requests, requestParams, queryString, builtURL>>

(* free *)
freeURL(url) == constructBuiltWithURL("free1", <<<<"LOOKUP", url>>>>, "api")

\* free with the text fallback of lists and trends.
freeDecode_Fallback(responseFormat, body) ==
  IF responseFormat = VALID_RESPONSE_TYPES.XML THEN ResText(body) ELSE TextThenParse(body)

freeDecode(responseFormat, body) ==
  IF responseFormat = VALID_RESPONSE_TYPES.XML THEN ResText(body) ELSE ResJson(body)

free(c, url) == Fetch(c, "free", <<url>>, freeURL(url))

freeThen(c, body) == Continue(c, "free", body, freeDecode(client.responseFormat, body))

(* domain *)
\* domain with options that have no default.
domainURL_NoDefaults(url, params) ==
  constructBuiltWithURL("v14",
    << <<"LOOKUP", url>>, <<"HIDETEXT", Get(params, "hideAll", Undefined)>>,
       <<"HIDEDL", Get(params, "hideDescriptionAndLinks", Undefined)>>,
       <<"LIVEONLY", Get(params, "onlyLiveTechnologies", Undefined)>>,
       <<"NOMETA", Get(params, "noMetaData", Undefined)>>,
       <<"NOATTR", Get(params, "noAttributeData", Undefined)>> >>, "api")

domainURL(url, params) ==
  LET hideAll == Get(params, "hideAll", Bool(FALSE))
      noMetaData == Get(params, "noMetaData", Bool(FALSE))
      noAttributeData == Get(params, "noAttributeData", Bool(FALSE))
      hideDescriptionAndLinks == Get(params, "hideDescriptionAndLinks", Bool(FALSE))
      onlyLiveTechnologies == Get(params, "onlyLiveTechnologies", Bool(FALSE))
  IN constructBuiltWithURL("v14",
       << <<"LOOKUP", url>>, <<"HIDETEXT", hideAll>>, <<"HIDEDL", hideDescriptionAndLinks>>,
          <<"LIVEONLY", onlyLiveTechnologies>>, <<"NOMETA", noMetaData>>,
          <<"NOATTR", noAttributeData>> >>, "api")

\* domain without the XML branch.
domainDecode_AlwaysJson(responseFormat, body) == ResJson(body)

domainDecode(responseFormat, body) ==
  IF responseFormat = VALID_RESPONSE_TYPES.XML THEN ResText(body) ELSE ResJson(body)

domain(c, url, params) == Fetch(c, "domain", <<url, params>>, domainURL(url, params))

domainThen(c, body) == Continue(c, "domain", body, domainDecode(client.responseFormat, body))

(* lists *)
listsURL(technologies, params) ==
  LET includeMetaData == Get(params, "includeMetaData", Bool(FALSE))
      offset == Get(params, "offset", Undefined)
      since == Get(params, "since", Undefined)
  IN constructBuiltWithURL("lists5",
       << <<"TECH", technologies>>, <<"META", includeMetaData>>, <<"OFFSET", offset>>,
          <<"SINCE", since>> >>, "api")

\* lists with the XML-only test of the other methods.
listsDecode_XmlOnly(responseFormat, body) ==
  IF responseFormat = VALID_RESPONSE_TYPES.XML THEN ResText(body) ELSE TextThenParse(body)

listsDecode(responseFormat, body) ==
  IF responseFormat = VALID_RESPONSE_TYPES.TXT \/ responseFormat = VALID_RESPONSE_TYPES.XML
  THEN ResText(body)
  ELSE TextThenParse(body)

lists(c, technologies, params) ==
  Fetch(c, "lists", <<technologies, params>>, listsURL(technologies, params))

listsThen(c, body) == Continue(c, "lists", body, listsDecode(client.responseFormat, body))

(* relationships *)
relationshipsURL(url) == constructBuiltWithURL("rv1", <<<<"LOOKUP", url>>>>, "api")

relationshipsDecode(responseFormat, body) ==
  IF responseFormat = VALID_RESPONSE_TYPES.XML THEN ResText(body) ELSE ResJson(body)

relationships(c, url) == Fetch(c, "relationships", <<url>>, relationshipsURL(url))

relationshipsThen(c, body) ==
  Continue(c, "relationships", body, relationshipsDecode(client.responseFormat, body))

(* keywords *)
keywordsURL(url) == constructBuiltWithURL("kw2", <<<<"LOOKUP", url>>>>, "api")

keywordsDecode(responseFormat, body) ==
  IF responseFormat = VALID_RESPONSE_TYPES.XML THEN ResText(body) ELSE ResJson(body)

keywords(c, url) == Fetch(c, "keywords", <<url>>, keywordsURL(url))

keywordsThen(c, body) ==
  Continue(c, "keywords", body, keywordsDecode(client.responseFormat, body))

(* trends *)
trendsURL(technology, params) ==
  LET date == Get(params, "date", Undefined)
  IN constructBuiltWithURL("trends/v6", << <<"TECH", technology>>, <<"DATE", date>> >>, "api")

trendsDecode(responseFormat, body) ==
  IF responseFormat = VALID_RESPONSE_TYPES.XML THEN ResText(body) ELSE TextThenParse(body)

trends(c, technology, params) ==
  Fetch(c, "trends", <<technology, params>>, trendsURL(technology, params))

trendsThen(c, body) == Continue(c, "trends", body, trendsDecode(client.responseFormat, body))

(* companyToUrl *)
companyToUrlURL(companyName, params) ==
  LET tld == Get(params, "tld", Undefined)
      amount == Get(params, "noMetaData", Undefined)
  IN constructBuiltWithURL("ctu1",
       << <<"COMPANY", companyName>>, <<"TLD", tld>>, <<"AMOUNT", amount>> >>, "ctu")

companyToUrlDecode(responseFormat, body) ==
  IF responseFormat = VALID_RESPONSE_TYPES.XML THEN ResText(body) ELSE ResJson(body)

companyToUrl(c, companyName, params) ==
  Fetch(c, "companyToUrl", <<companyName, params>>, companyToUrlURL(companyName, params))

companyToUrlThen(c, body) ==
  Continue(c, "companyToUrl", body, companyToUrlDecode(client.responseFormat, body))

---------------------------------------------------------------------------
(* The inputs the model draws from *)

ApiKeys == {"K"}

ModuleParams ==
  {Undefined, [responseFormat |-> Str("xml")], [responseFormat |-> Str("json")],
   [responseFormat |-> Str("txt")], [responseFormat |-> Str("yaml")],
   [responseFormat |-> Str("JSON")], [responseFormat |-> Undefined], [format |-> Str("json")]}

LookupUrls == {Str("a.com")}
DomainOptions == {Undefined, [hideAll |-> Bool(TRUE)]}
Technologies == {Arr(<<"php">>)}
ListsOptions == {Undefined}
TrendTechnologies == {Str("php")}
TrendsOptions == {Undefined}
CompanyNames == {Str("Acme")}
CompanyOptions == {[amount |-> Num(5)], [noMetaData |-> Bool(TRUE)]}

BodyObject == <<"{", "\"", "a", "\"", ":", "[", "1", "]", "}">>
BodyString == <<"\"", "o", "k", "\"">>
BodyError == <<"E", "r", "r", "o", "r", ":", " ", "i", "n", "v", "a", "l", "i", "d", " ",
               "k", "e", "y">>
Bodies == {BodyObject, BodyString, BodyError}

---------------------------------------------------------------------------
(* The client, constructed once and called concurrently *)

Init ==
  /\ ctor = "none"
  /\ ctorArgs = <<>>
  /\ client = NoClient
  /\ calls = [c \in Calls |-> IdleCall]
  /\ requests = [c \in Calls |-> <<>>]
  /\ console = [o \in 0..MaxCalls |-> <<>>]
  /\ requestParams = <<>>
  /\ queryString = Undefined
  /\ builtURL = Undefined

Next ==
  \/ \E apiKey \in ApiKeys, moduleParams \in ModuleParams : BuiltWith(apiKey, moduleParams)
  \/ \E c \in Calls, url \in LookupUrls : free(c, url)
  \/ \E c \in Calls, url \in LookupUrls, params \in DomainOptions : domain(c, url, params)
  \/ \E c \in Calls, t \in Technologies, params \in ListsOptions : lists(c, t, params)
  \/ \E c \in Calls, url \in LookupUrls : relationships(c, url)
  \/ \E c \in Calls, url \in LookupUrls : keywords(c, url)
  \/ \E c \in Calls, t \in TrendTechnologies, params \in TrendsOptions : trends(c, t, params)
  \/ \E c \in Calls, n \in CompanyNames, params \in CompanyOptions : companyToUrl(c, n, params)
  \/ \E c \in Calls : FetchRejects(c)
  \/ \E c \in Calls, body \in Bodies : freeThen(c, body)
  \/ \E c \in Calls, body \in Bodies : domainThen(c, body)
  \/ \E c \in Calls, body \in Bodies : listsThen(c, body)
  \/ \E c \in Calls, body \in Bodies : relationshipsThen(c, body)
  \/ \E c \in Calls, body \in Bodies : keywordsThen(c, body)
  \/ \E c \in Calls, body \in Bodies : trendsThen(c, body)
  \/ \E c \in Calls, body \in Bodies : companyToUrlThen(c, body)

Spec == Init /\ [][Next]_vars

---------------------------------------------------------------------------
(* The URL builder on its own: a constructed client, one parameter mapping, *)
(* and the two functions applied to it.                                     *)

ParamKeys == {"LOOKUP", "TECH", "META", "OFFSET"}
ParamValues == {Undefined, Bool(FALSE), Num(0), Str(""), Str("a.com")}

\* A parameter mapping is an object: its keys are distinct, its entries in insertion order.
ParamMappings ==
  UNION {{m \in [1..n -> ParamKeys \X ParamValues] :
            \A i, j \in 1..n : i # j => m[i][1] # m[j][1]} : n \in 0..MaxParams}

Endpoints == {<<"free1", "api">>, <<"ctu1", "ctu">>}

InitQS ==
  /\ ctor = "returned"
  /\ \E f \in {VALID_RESPONSE_TYPES.JSON, VALID_RESPONSE_TYPES.XML} :
       /\ ctorArgs = <<"K", [responseFormat |-> Str(f)]>>
       /\ client = [apiKey |-> "K", responseFormat |-> f]
  /\ calls = [c \in Calls |-> IdleCall]
  /\ requests = [c \in Calls |-> <<>>]
  /\ console = [o \in 0..MaxCalls |-> <<>>]
  /\ requestParams \in ParamMappings
  /\ queryString = Undefined
  /\ builtURL = Undefined

Serialize ==
  /\ queryString = Undefined
  /\ queryString' = Str(paramsObjToQueryString(requestParams))
  /\ UNCHANGED <<ctor, ctorArgs, client, calls, requests, console, requestParams, builtURL>>

Build(apiName, subdomain) ==
  /\ builtURL = Undefined
  /\ builtURL' = [t |-> "url", v |-> constructBuiltWithURL(apiName, requestParams, subdomain),
                  apiName |-> apiName, subdomain |-> subdomain]
  /\ UNCHANGED <<ctor, ctorArgs, client, calls, requests, console, requestParams, queryString>>

NextQS ==
  \/ Serialize
  \/ \E e \in Endpoints : Build(e[1], e[2])

SpecQS == InitQS /\ [][NextQS]_vars

---------------------------------------------------------------------------
(* Properties *)

\* Call c ran its continuation on a response body (it did not fail in transport).
Decided(c) ==
  /\ calls[c].pc \in {"resolved", "rejected"}
  /\ calls[c].outcome # Str("TransportError")

HasFormat(f) == ctor = "returned" /\ client.responseFormat = f

CategoryA == {"free", "domain", "relationships", "keywords", "companyToUrl"}
CategoryB == {"lists", "trends"}

\* What JSON.parse yields on each body of the model, written out by hand.
ExpectedJSON(body) ==
  CASE body = BodyObject ->
         [valid |-> TRUE, value |-> JObject(<< << <<"a">>, JArray(<<Num(1)>>) >> >>)]
    [] body = BodyString -> [valid |-> TRUE, value |-> Text(<<"o", "k">>)]
    [] OTHER -> [valid |-> FALSE]

HideAllCall(c) ==
  /\ ctor = "returned"
  /\ client = [apiKey |-> "K", responseFormat |-> "json"]
  /\ calls[c].method = "domain"
  /\ calls[c].args = <<Str("a.com"), [hideAll |-> Bool(TRUE)]>>

\* C1 as stated: domain("a.com", {hideAll: true}) on a client with key "K" and
\* format "json" requests ...?KEY=K&LOOKUP=a.com&HIDETEXT=true, the options the
\* caller did not pass being dropped from the URL.
C1_OptionsNotPassedAreDropped ==
  \A c \in Calls : HideAllCall(c) =>
    requests[c] = <<"https://api.builtwith.com/v14/api.json?KEY=K&LOOKUP=a.com&HIDETEXT=true">>

\* C1 amended: the same call requests exactly one URL, with the parameters in the
\* declared order LOOKUP, HIDETEXT, HIDEDL, LIVEONLY, NOMETA, NOATTR, and every
\* option the caller did not pass is sent with its default value false.
C1_OptionsNotPassedAreFalse ==
  \A c \in Calls : HideAllCall(c) =>
    requests[c] = <<"https://api.builtwith.com/v14/api.json?KEY=K&LOOKUP=a.com&HIDETEXT=true"
                    \o "&HIDEDL=false&LIVEONLY=false&NOMETA=false&NOATTR=false">>

C1_Witness == \E c \in Calls : HideAllCall(c) /\ calls[c].pc = "fetching"

\* The URL the option table gives for companyToUrl(companyName, params).
C2_TableURL(companyName, params) ==
  "https://ctu.builtwith.com/ctu1/api." \o client.responseFormat \o "?KEY=" \o client.apiKey
  \o "&COMPANY=" \o TemplateString(companyName)
  \o (IF Get(params, "tld", Undefined) # Undefined
      THEN "&TLD=" \o TemplateString(params.tld) ELSE "")
  \o (IF Get(params, "amount", Undefined) # Undefined
      THEN "&AMOUNT=" \o TemplateString(params.amount) ELSE "")

\* C2: companyToUrl requests host ctu, path ctu1, with COMPANY=companyName, TLD=options.tld
\* when tld is given and AMOUNT=options.amount when amount is given; AMOUNT is absent
\* exactly when options.amount is absent and no other option field influences the URL.
C2_CompanyToUrlOptions ==
  \A c \in Calls : calls[c].method = "companyToUrl" =>
    calls[c].bwURL = C2_TableURL(calls[c].args[1], calls[c].args[2])

\* C3: on a "json" client, lists and trends never reject because of the body: a body
\* that is valid JSON resolves to the parsed value, any other body resolves to the body
\* text unchanged, and the fallback warning is logged in exactly the calls that took
\* the text fallback.
C3_ListsTrendsJsonFallback ==
  \A c \in Calls :
    (HasFormat("json") /\ calls[c].method \in CategoryB) =>
      /\ calls[c].pc = "rejected" => calls[c].outcome = Str("TransportError")
      /\ Decided(c) =>
           LET e == ExpectedJSON(calls[c].body)
           IN IF e.valid
              THEN calls[c].outcome = e.value /\ console[c] = <<>>
              ELSE calls[c].outcome = Text(calls[c].body) /\ console[c] = <<FALLBACK_WARNING>>
      /\ ~Decided(c) => console[c] = <<>>

C3_Witness ==
  \E c \in Calls :
    /\ HasFormat("json") /\ calls[c].method = "lists" /\ calls[c].pc = "resolved"
    /\ calls[c].body = BodyError /\ calls[c].outcome = Text(BodyError)
    /\ console[c] = <<FALLBACK_WARNING>>

\* C4: on a client whose format is not "xml", free, domain, relationships, keywords and
\* companyToUrl reject with a parse error whenever the body is not valid JSON; they
\* never resolve to the raw text and log no fallback warning.
C4_CategoryAFailsLoudly ==
  \A c \in Calls :
    (ctor = "returned" /\ client.responseFormat # "xml" /\ calls[c].method \in CategoryA) =>
      /\ console[c] = <<>>
      /\ Decided(c) =>
           LET e == ExpectedJSON(calls[c].body)
           IN IF e.valid
              THEN calls[c].pc = "resolved" /\ calls[c].outcome = e.value
              ELSE calls[c].pc = "rejected" /\ calls[c].outcome = Str("ParseError")
      /\ calls[c].pc = "resolved" => calls[c].outcome # Text(calls[c].body)

C4_Witness ==
  \E c \in Calls :
    /\ HasFormat("json") /\ calls[c].method = "free" /\ calls[c].body = BodyError
    /\ calls[c].pc = "rejected" /\ calls[c].outcome = Str("ParseError")

\* Call c resolved to the raw body text, with no JSON parse and no warning.
RawText(c) ==
  /\ calls[c].pc = "resolved"
  /\ calls[c].outcome = Text(calls[c].body)
  /\ ~calls[c].jsonParsed
  /\ console[c] = <<>>

\* C5 as stated: lists and trends both resolve to the raw body text, with no JSON parse
\* and no fallback warning, when the format is "xml" or "txt".
C5_ListsTrendsRawOnXmlTxt ==
  \A c \in Calls :
    ((HasFormat("xml") \/ HasFormat("txt")) /\ calls[c].method \in CategoryB /\ Decided(c))
      => RawText(c)

\* C5 amended: lists resolves to the raw body text, with no JSON parse and no warning,
\* on "xml" and "txt"; trends does so on "xml" only.  On a "txt" client trends parses
\* the body as on a "json" client: the parsed value when the body is valid JSON, the
\* body text with a fallback warning otherwise.
C5_ListsRawOnXmlTxtTrendsOnXml ==
  \A c \in Calls : Decided(c) =>
    /\ ((HasFormat("xml") \/ HasFormat("txt")) /\ calls[c].method = "lists") => RawText(c)
    /\ (HasFormat("xml") /\ calls[c].method = "trends") => RawText(c)
    /\ (HasFormat("txt") /\ calls[c].method = "trends") =>
         LET e == ExpectedJSON(calls[c].body)
         IN /\ calls[c].pc = "resolved"
            /\ calls[c].jsonParsed
            /\ IF e.valid
               THEN calls[c].outcome = e.value /\ console[c] = <<>>
               ELSE calls[c].outcome = Text(calls[c].body) /\ console[c] = <<FALLBACK_WARNING>>

C5_Witness ==
  \E c, d \in Calls :
    /\ HasFormat("txt")
    /\ calls[c].method = "lists" /\ calls[c].body = BodyObject /\ RawText(c)
    /\ calls[d].method = "trends" /\ calls[d].body = BodyObject /\ calls[d].pc = "resolved"
    /\ calls[d].outcome = ExpectedJSON(BodyObject).value

\* The moduleParams whose responseFormat is one of "xml", "json", "txt".
RecognisedModuleParams ==
  {[responseFormat |-> Str("xml")], [responseFormat |-> Str("json")],
   [responseFormat |-> Str("txt")]}

\* C6: construction succeeds exactly when responseFormat is "xml", "json" or "txt";
\* otherwise it throws, no client exists and no HTTP request is ever issued.
C6_ConstructionValidatesFormat ==
  /\ ctor = "none" => client = NoClient /\ \A c \in Calls : requests[c] = <<>>
  /\ ctor # "none" =>
       /\ ctor = "returned" <=> ctorArgs[2] \in RecognisedModuleParams
       /\ ctor = "returned" =>
            client = [apiKey |-> ctorArgs[1], responseFormat |-> ctorArgs[2].responseFormat.v]
       /\ ctor = "threw" =>
            /\ client = NoClient
            /\ \A c \in Calls : requests[c] = <<>> /\ calls[c].pc = "idle"

C6_Witness == ctor = "threw" /\ ctorArgs[2] = [responseFormat |-> Str("yaml")]

\* C7: on an "xml" client every one of the seven methods resolves to the raw body text
\* for every body, and JSON parsing is never attempted.
C7_XmlIsNeverParsed ==
  \A c \in Calls : HasFormat("xml") =>
    /\ ~calls[c].jsonParsed
    /\ console[c] = <<>>
    /\ calls[c].pc = "rejected" => calls[c].outcome = Str("TransportError")
    /\ calls[c].pc = "resolved" => calls[c].outcome = Text(calls[c].body)

C7_Witness ==
  \E c, d \in Calls :
    /\ HasFormat("xml")
    /\ calls[c].method = "domain" /\ calls[c].pc = "resolved"
    /\ calls[c].body = BodyObject /\ calls[c].outcome = Text(BodyObject)
    /\ calls[d].method = "trends" /\ calls[d].pc = "resolved"
    /\ calls[d].body = BodyString /\ calls[d].outcome = Text(BodyString)

AllUndefined(params) == \A i \in 1..Len(params) : params[i][2] = Undefined

\* C8: the "&" after KEY={apiKey} is appended only when a parameter remains after the
\* undefined ones are filtered out: for a mapping whose values are all undefined the
\* URL is exactly https://{subdomain}.builtwith.com/{path}/api.{format}?KEY={apiKey}.
C8_NoTrailingSeparator ==
  (builtURL # Undefined /\ AllUndefined(requestParams)) =>
    builtURL.v = "https://" \o builtURL.subdomain \o ".builtwith.com/" \o builtURL.apiName
                 \o "/api." \o client.responseFormat \o "?KEY=" \o client.apiKey

\* The text each parameter value of the model is written as, by hand.
C9_Verbatim(value) ==
  CASE value = Bool(FALSE) -> "false"
    [] value = Num(0) -> "0"
    [] value = Str("") -> ""
    [] value = Str("a.com") -> "a.com"

\* The query string of a mapping, built entry by entry from its last entry backwards.
RECURSIVE C9_Expected(_)
C9_Expected(params) ==
  IF Len(params) = 0 THEN ""
  ELSE LET front == SubSeq(params, 1, Len(params) - 1)
           last == params[Len(params)]
       IN IF last[2] = Undefined THEN C9_Expected(front)
          ELSE IF AllUndefined(front) THEN last[1] \o "=" \o C9_Verbatim(last[2])
          ELSE C9_Expected(front) \o "&" \o last[1] \o "=" \o C9_Verbatim(last[2])

\* C9: the query string holds one key=value pair for exactly the keys whose value is
\* defined, in insertion order, joined by "&"; undefined values are omitted and false,
\* 0 and the empty string are written verbatim.
C9_QueryStringKeepsDefinedValues ==
  queryString # Undefined => queryString.v = C9_Expected(requestParams)

C9_Witness ==
  /\ requestParams = << <<"LOOKUP", Undefined>>, <<"META", Bool(FALSE)>>, <<"OFFSET", Num(0)>> >>
  /\ queryString = Str("META=false&OFFSET=0")

\* The URL a method builds from its arguments, and how it settles on a body.
URLOf(method, args) ==
  CASE method = "free" -> freeURL(args[1])
    [] method = "domain" -> domainURL(args[1], args[2])
    [] method = "lists" -> listsURL(args[1], args[2])
    [] method = "relationships" -> relationshipsURL(args[1])
    [] method = "keywords" -> keywordsURL(args[1])
    [] method = "trends" -> trendsURL(args[1], args[2])
    [] method = "companyToUrl" -> companyToUrlURL(args[1], args[2])

DecodeOf(method, responseFormat, body) ==
  CASE method = "free" -> freeDecode(responseFormat, body)
    [] method = "domain" -> domainDecode(responseFormat, body)
    [] method = "lists" -> listsDecode(responseFormat, body)
    [] method = "relationships" -> relationshipsDecode(responseFormat, body)
    [] method = "keywords" -> keywordsDecode(responseFormat, body)
    [] method = "trends" -> trendsDecode(responseFormat, body)
    [] method = "companyToUrl" -> companyToUrlDecode(responseFormat, body)

\* Every call has issued exactly one GET once started and none before; its URL is the
\* one its own method builds from its own arguments and the client's configuration; its
\* outcome and warnings are the ones its own method gives on its own response.
C10_OwnRequestOwnResult ==
  \A c \in Calls :
    /\ calls[c].pc = "idle" => requests[c] = <<>> /\ console[c] = <<>>
    /\ calls[c].pc # "idle" =>
         /\ requests[c] = <<calls[c].bwURL>>
         /\ calls[c].bwURL = URLOf(calls[c].method, calls[c].args)
    /\ Decided(c) =>
         LET s == DecodeOf(calls[c].method, client.responseFormat, calls[c].body)
         IN /\ calls[c].pc = s.pc
            /\ calls[c].outcome = s.outcome
            /\ console[c] = s.warnings

Touched(c) ==
  calls'[c] # calls[c] \/ requests'[c] # requests[c] \/ console'[c] # console[c]

\* A step never changes the configuration of a constructed client, touches the state
\* of at most one call, and leaves a settled call as it is.
C10_StepIsLocal ==
  /\ ctor = "returned" => ctor' = ctor /\ client' = client
  /\ \A c, d \in Calls : c # d => ~(Touched(c) /\ Touched(d))
  /\ \A c \in Calls : calls[c].pc \in {"resolved", "rejected"} => ~Touched(c)

\* C10: under any interleaving of concurrent calls on one client, each call issues
\* exactly one HTTP GET, its URL and result depend only on its own arguments, the
\* client's configuration and its own response, no call changes another call's state,
\* and apiKey and responseFormat never change after construction.
C10_ConcurrentCallsIndependent == []C10_OwnRequestOwnResult /\ [][C10_StepIsLocal]_vars

\* Call 2 has settled on its response while call 1, started with another URL, still waits.
C10_Witness ==
  /\ calls[1].pc = "fetching"
  /\ calls[2].pc = "resolved"
  /\ requests[1] # requests[2]
  /\ Len(requests[1]) = 1 /\ Len(requests[2]) = 1

=============================================================================
